---------------------------- MODULE Spec2Model ----------------------------
(***************************************************************************)
(* A model of the gmail-mcp tool server: the CallToolRequestSchema handler *)
(* of src/src/index.ts (listEmails, getEmailContent, sendEmail), the       *)
(* message normalizer parseMessage, and the two earlier handlers kept in   *)
(* the repository (src/unnamed/part_000: getEmailContent by messageId;     *)
(* src/unnamed/part_001: listEmails returning the raw listing).  The      *)
(* second program of part_000 (filterEmails, sendEmail with cc) is not     *)
(* modelled.                                                               *)
(*                                                                         *)
(* JavaScript strings that the code inspects or converts character by      *)
(* character (query strings, addresses, base64 text, message bodies) are   *)
(* sequences of one-character strings; names that the code only compares   *)
(* (tool names, header names, mime types, ids, error messages) are atomic  *)
(* strings.                                                                *)
(***************************************************************************)
EXTENDS Integers, Sequences, FiniteSets, TLC

VARIABLES
    GMAIL_API_KEY,  \* TRUE when process.env.GMAIL_API_KEY is a non-empty string
    program,        \* which source file's server is running
    calls,          \* call id -> the state of that handler invocation
    served,         \* number of invocations that have ended so far
    message,        \* SpecParse: the RawMessage handed to parseMessage
    parsed          \* SpecParse: what parseMessage returned for it

vars == <<GMAIL_API_KEY, program, calls, served, message, parsed>>

----------------------------------------------------------------------------
(* Bounds of the model.                                                    *)

\* longest messages sequence a list response carries
MaxIds == 2
\* invocations served one after the other by one process
MaxServed == 2
\* longest payload.parts sequence of a RawMessage
MaxParts == 2
\* largest emailIndex a caller passes
MaxIndex == 3

----------------------------------------------------------------------------
(* Characters, bytes and base64.                                           *)

\* the printable ASCII characters, code 32 first (the grave accent, code 96,
\* is written U+0060)
Ascii ==
  << " ", "!", "\"", "#", "$", "%", "&", "'", "(", ")", "*", "+", ",", "-", ".", "/",
     "0", "1", "2", "3", "4", "5", "6", "7", "8", "9", ":", ";", "<", "=", ">", "?",
     "@", "A", "B", "C", "D", "E", "F", "G", "H", "I", "J", "K", "L", "M", "N", "O",
     "P", "Q", "R", "S", "T", "U", "V", "W", "X", "Y", "Z", "[", "\\", "]", "^", "_",
     "U+0060", "a", "b", "c", "d", "e", "f", "g", "h", "i", "j", "k", "l", "m", "n", "o",
     "p", "q", "r", "s", "t", "u", "v", "w", "x", "y", "z", "{", "|", "}", "~" >>

\* the standard base64 alphabet, value 0 first
Base64Alphabet ==
  << "A", "B", "C", "D", "E", "F", "G", "H", "I", "J", "K", "L", "M", "N", "O", "P",
     "Q", "R", "S", "T", "U", "V", "W", "X", "Y", "Z", "a", "b", "c", "d", "e", "f",
     "g", "h", "i", "j", "k", "l", "m", "n", "o", "p", "q", "r", "s", "t", "u", "v",
     "w", "x", "y", "z", "0", "1", "2", "3", "4", "5", "6", "7", "8", "9", "+", "/" >>

\* U+FFFD, what a UTF-8 decoder puts for a byte that starts no character
ReplacementChar == "U+FFFD"

\* the UTF-8 byte of an ASCII character (CR and LF included)
CharCode(ch) ==
  IF ch = "\r" THEN 13
  ELSE IF ch = "\n" THEN 10
  ELSE 31 + (CHOOSE i \in 1..Len(Ascii) : Ascii[i] = ch)

\* the character of one byte of UTF-8 text; bytes above 127 are only modelled
\* standing alone, where the decoder yields U+FFFD
CharOf(b) ==
  IF b = 13 THEN "\r"
  ELSE IF b = 10 THEN "\n"
  ELSE IF b >= 32 /\ b <= 126 THEN Ascii[b - 31]
  ELSE ReplacementChar

\* Buffer.from(str): the UTF-8 bytes of a string
Utf8Bytes(str) == [i \in 1..Len(str) |-> CharCode(str[i])]

\* buf.toString("utf-8")
Utf8String(bytes) == [i \in 1..Len(bytes) |-> CharOf(bytes[i])]

\* the 6-bit value of a base64 character; the decoder reads both alphabets
SextetOf(ch) ==
  IF ch = "-" THEN 62
  ELSE IF ch = "_" THEN 63
  ELSE (CHOOSE i \in 1..64 : Base64Alphabet[i] = ch) - 1

\* the characters of base64 text before its first "=": the decoder stops there
BeforePadding(str) ==
  LET stops == {i \in 1..Len(str) : str[i] = "="}
  IN  IF stops = {} THEN str
      ELSE SubSeq(str, 1, (CHOOSE i \in stops : \A j \in stops : i <= j) - 1)

\* the bytes of a run of sextets: 4 give 3 bytes, a last 3 give 2, a last 2 give 1
RECURSIVE SextetsToBytes(_)
SextetsToBytes(s) ==
  IF Len(s) < 2 THEN <<>>
  ELSE IF Len(s) = 2 THEN << (s[1] * 4) + (s[2] \div 16) >>
  ELSE IF Len(s) = 3 THEN << (s[1] * 4) + (s[2] \div 16),
                             ((s[2] % 16) * 16) + (s[3] \div 4) >>
  ELSE << (s[1] * 4) + (s[2] \div 16),
          ((s[2] % 16) * 16) + (s[3] \div 4),
          ((s[3] % 4) * 64) + s[4] >> \o SextetsToBytes(SubSeq(s, 5, Len(s)))

\* Buffer.from(data, "base64")
Base64Decode(data) ==
  LET chars == BeforePadding(data)
  IN  SextetsToBytes([i \in 1..Len(chars) |-> SextetOf(chars[i])])

\* Buffer.from(data, "base64").toString("utf-8")
DecodeBody(data) == Utf8String(Base64Decode(data))

\* the base64 characters of a run of bytes, "=" padded to a multiple of 4
RECURSIVE BytesToBase64(_)
BytesToBase64(b) ==
  IF Len(b) = 0 THEN <<>>
  ELSE IF Len(b) = 1 THEN
    << Base64Alphabet[(b[1] \div 4) + 1],
       Base64Alphabet[((b[1] % 4) * 16) + 1], "=", "=" >>
  ELSE IF Len(b) = 2 THEN
    << Base64Alphabet[(b[1] \div 4) + 1],
       Base64Alphabet[((b[1] % 4) * 16) + (b[2] \div 16) + 1],
       Base64Alphabet[((b[2] % 16) * 4) + 1], "=" >>
  ELSE
    << Base64Alphabet[(b[1] \div 4) + 1],
       Base64Alphabet[((b[1] % 4) * 16) + (b[2] \div 16) + 1],
       Base64Alphabet[((b[2] % 16) * 4) + (b[3] \div 64) + 1],
       Base64Alphabet[(b[3] % 64) + 1] >> \o BytesToBase64(SubSeq(b, 4, Len(b)))

\* str.replace(/from/g, to) for a one-character pattern
ReplaceAll(str, from, to) ==
  [i \in 1..Len(str) |-> IF str[i] = from THEN to ELSE str[i]]

\* str.replace(/=+$/, "")
RECURSIVE StripPadding(_)
StripPadding(str) ==
  IF str # <<>> /\ str[Len(str)] = "="
  THEN StripPadding(SubSeq(str, 1, Len(str) - 1))
  ELSE str

----------------------------------------------------------------------------
(* RawMessage and the message normalizer.                                  *)

\* base64 text the provider sends: "hi", "yo" (unpadded), "<b>" (url-safe
\* alphabet), "body", and the empty string
DataHi == <<"a", "G", "k", "=">>
DataYo == <<"e", "W", "8">>
DataHtml == <<"P", "G", "I", "-">>
DataBody == <<"Y", "m", "9", "k", "e", "Q", "=", "=">>
DataEmpty == <<>>

MimeTypes == {"text/plain", "text/html", "image/png"}

Parts ==
  [mimeType : MimeTypes, body : [data : {DataHi, DataYo, DataHtml}]]

PartsSeqs == UNION {[1..n -> Parts] : n \in 0..MaxParts}

\* header sequences: both headers, neither, a lower-case name only, and a
\* repeated Subject
HeaderSeqs ==
  { << [name |-> "From", value |-> "ann@x.io"],
       [name |-> "Subject", value |-> "Hello"] >>,
    << [name |-> "subject", value |-> "lower"] >>,
    << [name |-> "Subject", value |-> "First"],
       [name |-> "Subject", value |-> "Second"] >>,
    << >> }

\* payload.parts and payload.body.data are optional: hasParts and hasData
\* say whether the field is there
Payloads ==
  [headers : HeaderSeqs,
   hasParts : BOOLEAN, parts : PartsSeqs,
   body : [hasData : BOOLEAN, data : {DataBody, DataEmpty}]]

RawMessages ==
  { m \in [id : {"a", "b"}, payload : Payloads] :
      /\ (~m.payload.hasParts => m.payload.parts = <<>>)
      /\ (~m.payload.body.hasData => m.payload.body.data = DataEmpty) }

\* a value that may be undefined
Undefined == [defined |-> FALSE, value |-> ""]
Defined(v) == [defined |-> TRUE, value |-> v]

\* headers.find((header) => header.name === name)?.value
RECURSIVE FindHeader(_, _)
FindHeader(headers, name) ==
  IF headers = <<>> THEN Undefined
  ELSE IF Head(headers).name = name THEN Defined(Head(headers).value)
  ELSE FindHeader(Tail(headers), name)

\* parts.find((part) => part.mimeType === mimeType), as the index of the part
\* found, 0 when find returns undefined
RECURSIVE FindPartFrom(_, _, _)
FindPartFrom(parts, mimeType, i) ==
  IF i > Len(parts) THEN 0
  ELSE IF parts[i].mimeType = mimeType THEN i
  ELSE FindPartFrom(parts, mimeType, i + 1)

\* a find that keeps the last match
FindPartLast(parts, mimeType) ==
  LET hits == {i \in 1..Len(parts) : parts[i].mimeType = mimeType}
  IN  IF hits = {} THEN 0 ELSE CHOOSE i \in hits : \A j \in hits : j <= i

FindPart(parts, mimeType) == FindPartFrom(parts, mimeType, 1)

\* body selection that falls through to payload.body.data when no part matched
SelectBodyFallThrough(payload) ==
  LET textPart == FindPart(payload.parts, "text/plain")
      htmlPart == FindPart(payload.parts, "text/html")
  IN  IF payload.hasParts /\ textPart # 0
        THEN DecodeBody(payload.parts[textPart].body.data)
      ELSE IF payload.hasParts /\ htmlPart # 0
        THEN DecodeBody(payload.parts[htmlPart].body.data)
      ELSE IF payload.body.hasData /\ payload.body.data # <<>>
        THEN DecodeBody(payload.body.data)
      ELSE <<>>

\* the body parseMessage selects
SelectBody(payload) ==
  IF payload.hasParts THEN
    LET textPart == FindPart(payload.parts, "text/plain")
    IN  IF textPart # 0 THEN DecodeBody(payload.parts[textPart].body.data)
        ELSE LET htmlPart == FindPart(payload.parts, "text/html")
             IN  IF htmlPart # 0
                 THEN DecodeBody(payload.parts[htmlPart].body.data)
                 ELSE <<>>
  ELSE IF payload.body.hasData /\ payload.body.data # <<>>
    THEN DecodeBody(payload.body.data)
  ELSE <<>>

parseMessage(m) ==
  [id |-> m.id,
   subject |-> FindHeader(m.payload.headers, "Subject"),
   from |-> FindHeader(m.payload.headers, "From"),
   body |-> SelectBody(m.payload)]

NoMessage ==
  [id |-> "", payload |-> [headers |-> <<>>, hasParts |-> FALSE, parts |-> <<>>,
                           body |-> [hasData |-> FALSE, data |-> <<>>]]]

NoEmail == [id |-> "", subject |-> Undefined, from |-> Undefined, body |-> <<>>]

----------------------------------------------------------------------------
(* JavaScript values, tool-call requests and the declared schemas.         *)

StrTo == <<"T", "o", ":", " ">>
StrCrLf == <<"\r", "\n">>
StrSubject == <<"S", "u", "b", "j", "e", "c", "t", ":", " ">>
StrContentType ==
  <<"C", "o", "n", "t", "e", "n", "t", "-", "T", "y", "p", "e", ":", " ",
    "t", "e", "x", "t", "/", "p", "l", "a", "i", "n", ";", " ",
    "c", "h", "a", "r", "s", "e", "t", "=", "u", "t", "f", "-", "8",
    "\r", "\n", "\r", "\n">>
StrUndefined == <<"u", "n", "d", "e", "f", "i", "n", "e", "d">>
StrInInbox == <<"i", "n", ":", "i", "n", "b", "o", "x">>
StrInSent == <<"i", "n", ":", "s", "e", "n", "t">>
AddrAnn == <<"a", "n", "n", "@", "x", ".", "i", "o">>
AddrBob == <<"b", "o", "b", "@", "y", ".", "o", "r", "g">>
StrNobody == <<"n", "o", "b", "o", "d", "y">>
StrHi == <<"H", "i">>
StrOk == <<"o", "k", "?">>
StrCc == <<"C", "c", ":", " ">>
\* bodies whose standard base64 holds "/" and "+", without and with padding
StrMarks == <<"o", "k", "?", "?", "?", "~", "~", "~">>
StrMarksLine == StrMarks \o StrCrLf

\* a JavaScript value: undefined, a string or a number
JsUndefined == [t |-> "undefined", s |-> <<>>, n |-> 0]
JsString(str) == [t |-> "string", s |-> str, n |-> 0]
JsNumber(num) == [t |-> "number", s |-> <<>>, n |-> num]

\* whether a value counts as true in a condition
Truthy(v) ==
  \/ v.t = "string" /\ v.s # <<>>
  \/ v.t = "number" /\ v.n # 0

Digits == <<"0", "1", "2", "3", "4", "5", "6", "7", "8", "9">>

RECURSIVE NatToString(_)
NatToString(n) ==
  IF n < 10 THEN <<Digits[n + 1]>>
  ELSE NatToString(n \div 10) \o <<Digits[(n % 10) + 1]>>

\* String(v), what a template literal puts for ${v}
ToStr(v) ==
  IF v.t = "undefined" THEN StrUndefined
  ELSE IF v.t = "string" THEN v.s
  ELSE IF v.n < 0 THEN <<"-">> \o NatToString(0 - v.n)
  ELSE NatToString(v.n)

\* the characters encodeURIComponent leaves as they are
Unreserved ==
  { Ascii[i] : i \in (CharCode("A") - 31)..(CharCode("Z") - 31) } \cup
  { Ascii[i] : i \in (CharCode("a") - 31)..(CharCode("z") - 31) } \cup
  { Ascii[i] : i \in (CharCode("0") - 31)..(CharCode("9") - 31) } \cup
  { "-", "_", ".", "!", "~", "*", "'", "(", ")" }

HexDigits ==
  <<"0", "1", "2", "3", "4", "5", "6", "7", "8", "9", "A", "B", "C", "D", "E", "F">>

\* encodeURIComponent(str), for ASCII text: %XX for every other character
RECURSIVE encodeURIComponent(_)
encodeURIComponent(str) ==
  IF str = <<>> THEN <<>>
  ELSE (IF Head(str) \in Unreserved THEN <<Head(str)>>
        ELSE <<"%", HexDigits[(CharCode(Head(str)) \div 16) + 1],
                    HexDigits[(CharCode(Head(str)) % 16) + 1]>>)
       \o encodeURIComponent(Tail(str))

NoArguments ==
  [query |-> JsUndefined, maxResults |-> JsUndefined, emailIndex |-> JsUndefined,
   to |-> JsUndefined, cc |-> JsUndefined, subject |-> JsUndefined,
   body |-> JsUndefined]

NoInput == [hasInput |-> FALSE, messageId |-> JsUndefined]

\* request.params: name, arguments (optional) and, for a caller that sends
\* it, input
ToolCall(name, hasArguments, arguments, input) ==
  [name |-> name, hasArguments |-> hasArguments, arguments |-> arguments,
   input |-> input]

NoRequest == ToolCall("", FALSE, NoArguments, NoInput)

ListEmailsRequests ==
  { ToolCall("listEmails", FALSE, NoArguments, NoInput) } \cup
  { ToolCall("listEmails", TRUE,
             [NoArguments EXCEPT !.query = q, !.maxResults = m], NoInput) :
      q \in {JsUndefined, JsString(StrInSent), JsString(<<>>), JsNumber(7)},
      m \in {JsUndefined, JsNumber(5), JsString(<<"x">>)} }

GetEmailContentRequests ==
  { ToolCall("getEmailContent", FALSE, NoArguments, NoInput),
    ToolCall("getEmailContent", FALSE, NoArguments,
             [hasInput |-> TRUE, messageId |-> JsString(<<"a">>)]),
    ToolCall("getEmailContent", FALSE, NoArguments,
             [hasInput |-> TRUE, messageId |-> JsNumber(1)]) } \cup
  { ToolCall("getEmailContent", TRUE, [NoArguments EXCEPT !.emailIndex = i],
             NoInput) :
      i \in {JsUndefined, JsString(<<"1">>)} \cup
            {JsNumber(n) : n \in (0 - 1)..MaxIndex} }

SendEmailRequests ==
  { ToolCall("sendEmail", FALSE, NoArguments, NoInput) } \cup
  { ToolCall("sendEmail", TRUE,
             [NoArguments EXCEPT !.to = t, !.cc = c, !.subject = s, !.body = b],
             NoInput) :
      t \in {JsUndefined, JsString(AddrAnn), JsString(StrNobody)},
      c \in {JsUndefined, JsString(AddrBob)},
      s \in {JsUndefined, JsString(StrHi)},
      b \in {JsString(StrOk), JsString(StrMarks), JsString(StrMarksLine),
              JsNumber(0)} }

\* names no program dispatches, with and without arguments
OtherRequests ==
  { ToolCall("deleteEmail", FALSE, NoArguments, NoInput),
    ToolCall("deleteEmail", TRUE,
             [NoArguments EXCEPT !.query = JsString(StrInSent)], NoInput),
    ToolCall("", TRUE, [NoArguments EXCEPT !.emailIndex = JsNumber(1)], NoInput) }

Requests ==
  ListEmailsRequests \cup GetEmailContentRequests \cup SendEmailRequests
    \cup OtherRequests

\* the requests of the runs with two invocations in flight: each tool, valid
\* and not, and a name that is not registered
ConcurrentRequests ==
  { ToolCall("listEmails", FALSE, NoArguments, NoInput),
    ToolCall("listEmails", TRUE,
             [NoArguments EXCEPT !.query = JsString(StrInSent),
                                 !.maxResults = JsNumber(5)], NoInput),
    ToolCall("getEmailContent", TRUE,
             [NoArguments EXCEPT !.emailIndex = JsNumber(1)], NoInput),
    ToolCall("getEmailContent", TRUE,
             [NoArguments EXCEPT !.emailIndex = JsNumber(2)], NoInput),
    ToolCall("sendEmail", TRUE,
             [NoArguments EXCEPT !.to = JsString(AddrAnn),
                                 !.subject = JsString(StrHi),
                                 !.body = JsString(StrOk)], NoInput),
    ToolCall("sendEmail", TRUE,
             [NoArguments EXCEPT !.to = JsString(StrNobody),
                                 !.subject = JsString(StrHi),
                                 !.body = JsString(StrOk)], NoInput),
    ToolCall("deleteEmail", FALSE, NoArguments, NoInput) }

\* z.string().email(): one "@", something before it, and after it a domain
\* with a dot that neither starts nor ends it
IsEmail(str) ==
  \E at \in 2..(Len(str) - 3) :
    /\ str[at] = "@"
    /\ \A i \in 1..Len(str) : str[i] = "@" => i = at
    /\ \A i \in 1..Len(str) : str[i] # " "
    /\ \E dot \in (at + 2)..(Len(str) - 1) : str[dot] = "."

\* ListEmailsSchema accepts the arguments: query and maxResults are optional,
\* a string and a number
ListEmailsSchema(arguments) ==
  /\ arguments.query.t \in {"undefined", "string"}
  /\ arguments.maxResults.t \in {"undefined", "number"}

\* what ListEmailsSchema.parse returns: the arguments with the defaults put in
ListEmailsDefaults(arguments) ==
  [arguments EXCEPT
     !.query = IF @.t = "undefined" THEN JsString(StrInInbox) ELSE @,
     !.maxResults = IF @.t = "undefined" THEN JsNumber(3) ELSE @]

\* EmailIndexSchema accepts the arguments
EmailIndexSchema(hasArguments, arguments) ==
  hasArguments /\ arguments.emailIndex.t = "number"

\* SendEmailSchema accepts the arguments
SendEmailSchema(hasArguments, arguments) ==
  /\ hasArguments
  /\ arguments.to.t = "string" /\ IsEmail(arguments.to.s)
  /\ arguments.subject.t = "string"
  /\ arguments.body.t = "string"

\* getEmailContentSchema of part_000 accepts request.params.input
getEmailContentSchema(input) ==
  input.hasInput /\ input.messageId.t = "string"

----------------------------------------------------------------------------
(* HTTP requests, provider responses and tool results.                     *)

\* one fetch(): the endpoint, its query parameters and its POST body
HttpRequest(op, hasQ, q, hasMaxResults, maxResults, id, raw) ==
  [op |-> op, hasQ |-> hasQ, q |-> q, hasMaxResults |-> hasMaxResults,
   maxResults |-> maxResults, id |-> id, raw |-> raw]

\* GET .../messages${queryParam}
ListRequest(hasQ, q, hasMaxResults, maxResults) ==
  HttpRequest("messages.list", hasQ, q, hasMaxResults, maxResults, <<>>, <<>>)

\* GET .../messages/${messageId}?format=full
GetRequest(id) == HttpRequest("messages.get", FALSE, <<>>, FALSE, <<>>, id, <<>>)

\* POST .../messages/send with body {raw}
SendRequest(raw) ==
  HttpRequest("messages.send", FALSE, <<>>, FALSE, <<>>, <<>>, raw)

\* what one fetch() comes to: rejected (a transport error), or resolved with
\* ok, statusText and a body that is not JSON ("invalid"), the JSON null, or
\* a JSON object with the fields its kind of response carries
Response(rejected, ok, json, errorMessage, hasMessages, messages, hasPayload, rawMessage) ==
  [rejected |-> rejected, ok |-> ok, statusText |-> IF ok THEN "OK" ELSE "Not Found",
   json |-> json, errorMessage |-> errorMessage, hasMessages |-> hasMessages,
   messages |-> messages, hasPayload |-> hasPayload, rawMessage |-> rawMessage]

Rejected ==
  Response(TRUE, FALSE, "invalid", Undefined, FALSE, <<>>, FALSE, NoMessage)

\* non-success statuses: a body that is not JSON, null, an object without
\* error.message, and objects with one (the second equal to the status text)
ErrorResponses ==
  { Response(FALSE, FALSE, j, Undefined, FALSE, <<>>, FALSE, NoMessage) :
      j \in {"invalid", "null", "object"} } \cup
  { Response(FALSE, FALSE, "object", Defined(m), FALSE, <<>>, FALSE, NoMessage) :
      m \in {"Requested entity was not found.", "Not Found"} }

MessageIds == {"a", "b"}

IdSeqs == UNION {[1..n -> MessageIds] : n \in 0..MaxIds}

\* successful list responses: not JSON, null, {} and {messages: [{id}, ...]}
ListResponses ==
  { Response(FALSE, TRUE, j, Undefined, FALSE, <<>>, FALSE, NoMessage) :
      j \in {"invalid", "null", "object"} } \cup
  { Response(FALSE, TRUE, "object", Undefined, TRUE, ids, FALSE, NoMessage) :
      ids \in IdSeqs }

\* the payloads the provider serves in the handler runs: a multipart message
\* with html before plain text, an html-only one, and a single-part one
FixturePayloads ==
  { [headers |-> << [name |-> "From", value |-> "ann@x.io"],
                    [name |-> "Subject", value |-> "Hello"] >>,
     hasParts |-> TRUE,
     parts |-> << [mimeType |-> "text/html", body |-> [data |-> DataHtml]],
                  [mimeType |-> "text/plain", body |-> [data |-> DataHi]] >>,
     body |-> [hasData |-> FALSE, data |-> DataEmpty]],
    [headers |-> << [name |-> "subject", value |-> "lower"] >>,
     hasParts |-> TRUE,
     parts |-> << [mimeType |-> "text/html", body |-> [data |-> DataHtml]] >>,
     body |-> [hasData |-> TRUE, data |-> DataBody]],
    [headers |-> << >>,
     hasParts |-> FALSE, parts |-> << >>,
     body |-> [hasData |-> TRUE, data |-> DataBody]] }

\* successful responses to the fetch of message id: not JSON, an object
\* without payload, and the message with one of the payloads
MessageResponses(id) ==
  { Response(FALSE, TRUE, j, Undefined, FALSE, <<>>, FALSE, NoMessage) :
      j \in {"invalid", "object"} } \cup
  { Response(FALSE, TRUE, "object", Undefined, FALSE, <<>>, TRUE,
             [id |-> id, payload |-> p]) : p \in FixturePayloads }

SendResponses ==
  { Response(FALSE, TRUE, "object", Undefined, FALSE, <<>>, FALSE, NoMessage) }

\* the responses of the runs with two invocations in flight: a transport
\* error, a provider error, and successes with no, one and two messages
NotFound ==
  Response(FALSE, FALSE, "object", Defined("Requested entity was not found."),
           FALSE, <<>>, FALSE, NoMessage)

ConcurrentListResponses ==
  { Rejected, NotFound,
    Response(FALSE, TRUE, "object", Undefined, FALSE, <<>>, FALSE, NoMessage) } \cup
  { Response(FALSE, TRUE, "object", Undefined, TRUE, ids, FALSE, NoMessage) :
      ids \in {<<"a">>, <<"a", "b">>} }

ConcurrentMessageResponses(id) ==
  { NotFound } \cup
  { Response(FALSE, TRUE, "object", Undefined, FALSE, <<>>, TRUE,
             [id |-> id, payload |-> p]) : p \in FixturePayloads }

ConcurrentSendResponses == { Rejected, NotFound } \cup SendResponses

NoData == [json |-> "", hasMessages |-> FALSE, messages |-> <<>>]

\* the text of a result: a fixed sentence, a sentence with ${message} put in
\* (written ${} in fmt), or JSON.stringify of value (or, part_001, of data)
Text(fmt, msg, value, data) ==
  [fmt |-> fmt, message |-> msg, value |-> value, data |-> data]

NoResult == Text("", "", <<>>, NoData)

ApiKeyNotSet == Text("API Key not set.", "", <<>>, NoData)
UnknownTool == Text("Unknown tool.", "", <<>>, NoData)
NoMessagesFound == Text("No messages found.", "", <<>>, NoData)
EmailNotFound == Text("Email not found at the specified index.", "", <<>>, NoData)
EmailSent == Text("Email sent successfully.", "", <<>>, NoData)
ErrorText(msg) == Text("Error: ${}", msg, <<>>, NoData)
ValidationErrorText(msg) == Text("Validation Error: ${}", msg, <<>>, NoData)

\* the object JSON.stringify writes for a NormalizedEmail: a key whose value is
\* undefined is left out
JsonEmail(e) ==
  [keys |-> {"id", "body"}
              \cup (IF e.subject.defined THEN {"subject"} ELSE {})
              \cup (IF e.from.defined THEN {"from"} ELSE {}),
   id |-> e.id, subject |-> e.subject.value, from |-> e.from.value,
   body |-> e.body]

\* JSON.stringify(emailMessages)
JsonArray(emails) ==
  Text("JSON.stringify(array)", "",
       [i \in 1..Len(emails) |-> JsonEmail(emails[i])], NoData)

\* JSON.stringify(emailContent)
JsonObject(email) ==
  Text("JSON.stringify(object)", "", <<JsonEmail(email)>>, NoData)

\* JSON.stringify(data, null, 2) of a list response
JsonData(resp) ==
  Text("JSON.stringify(data, null, 2)", "", <<>>,
       [json |-> resp.json, hasMessages |-> resp.hasMessages,
        messages |-> resp.messages])

\* error.message of the errors the handlers catch
FetchFailed == "fetch failed"
SyntaxError == "Unexpected token in JSON"
TypeError == "Cannot read properties of undefined"
ZodError == "ZodError"

----------------------------------------------------------------------------
(* The CallToolRequestSchema handlers.  A handler runs from one await of   *)
(* fetch() to the next; s is the state of one invocation.                  *)

Programs == {"index", "part_000", "part_001"}

\* the tools the ListToolsRequestSchema handler of a program advertises
RegisteredTools(prog) ==
  IF prog = "index" THEN {"listEmails", "getEmailContent", "sendEmail"}
  ELSE IF prog = "part_000" THEN {"listEmails", "getEmailContent"}
  ELSE {"listEmails"}

IdleCall ==
  [pc |-> "idle", request |-> NoRequest, emailIndex |-> 0,
   messageList |-> <<>>, emailMessages |-> <<>>, http |-> <<>>,
   responses |-> <<>>, result |-> NoResult, thrown |-> ""]

\* return { content: [{ type: "text", text }] }
Return(s, content) == [s EXCEPT !.pc = "returned", !.result = content]

\* an exception leaves the handler
Throw(s, err) == [s EXCEPT !.pc = "threw", !.thrown = err]

\* await fetch(req): the invocation waits at pc for the response
Issue(s, req, pc) == [s EXCEPT !.pc = pc, !.http = Append(@, req)]

\* a credential check that never fires
CredentialNeverMissing == FALSE

\* !GMAIL_API_KEY
CredentialMissing == ~GMAIL_API_KEY

\* the ?q=...&maxResults=... of listEmails, built from the raw arguments
queryParam(arguments) ==
  IF Truthy(arguments.query)
  THEN ListRequest(TRUE, encodeURIComponent(ToStr(arguments.query)),
                   TRUE, ToStr(arguments.maxResults))
  ELSE ListRequest(FALSE, <<>>, TRUE, ToStr(arguments.maxResults))

\* the header block of sendEmail: To, Subject, Content-Type, blank line
emailHeaders(to, subject) ==
  StrTo \o to \o StrCrLf \o StrSubject \o subject \o StrCrLf \o StrContentType

\* the standard base64 text, neither made url-safe nor unpadded
rawStandard(block) == BytesToBase64(Utf8Bytes(block))

\* Buffer.from(block).toString("base64") made url-safe and unpadded
raw(block) ==
  StripPadding(
    ReplaceAll(ReplaceAll(BytesToBase64(Utf8Bytes(block)), "+", "-"), "/", "_"))

\* errorData.error?.message || response.statusText, after response.json()
errorMessage(resp) ==
  IF resp.json = "invalid" THEN SyntaxError
  ELSE IF resp.json = "null" THEN TypeError
  ELSE IF resp.errorMessage.defined /\ resp.errorMessage.value # ""
    THEN resp.errorMessage.value
  ELSE resp.statusText

\* the error, if any, that ends an invocation on a response: fetch rejected,
\* a non-success status, or a successful body that is not JSON or is null
Failure(resp) ==
  IF resp.rejected THEN Defined(FetchFailed)
  ELSE IF ~resp.ok THEN Defined(errorMessage(resp))
  ELSE IF resp.json = "invalid" THEN Defined(SyntaxError)
  ELSE IF resp.json = "null" THEN Defined(TypeError)
  ELSE Undefined

(* index.ts, case "listEmails" *)
listEmailsStart(s) ==
  IF CredentialMissing THEN Return(s, ApiKeyNotSet)
  ELSE Issue(s, queryParam(s.request.arguments), "awaitList")

\* a loop that fetches the ids last to first
listEmailsListedReversed(s, resp) ==
  IF Failure(resp).defined THEN Return(s, ErrorText(Failure(resp).value))
  ELSE IF ~resp.hasMessages THEN Return(s, NoMessagesFound)
  ELSE IF resp.messages = <<>> THEN Return(s, JsonArray(<<>>))
  ELSE Issue([s EXCEPT !.messageList =
                 [i \in 1..Len(resp.messages) |->
                    resp.messages[Len(resp.messages) + 1 - i]]],
             GetRequest(<<resp.messages[Len(resp.messages)]>>), "awaitMessage")

\* a loop that starts the fetches of all the ids at once
listEmailsListedFanOut(s, resp) ==
  IF Failure(resp).defined THEN Return(s, ErrorText(Failure(resp).value))
  ELSE IF ~resp.hasMessages THEN Return(s, NoMessagesFound)
  ELSE IF resp.messages = <<>> THEN Return(s, JsonArray(<<>>))
  ELSE [s EXCEPT !.pc = "awaitMessage", !.messageList = resp.messages,
                 !.http = @ \o [i \in 1..Len(resp.messages) |->
                                  GetRequest(<<resp.messages[i]>>)]]

\* after the list response: no messages, or the fetch of the first id
listEmailsListed(s, resp) ==
  IF Failure(resp).defined THEN Return(s, ErrorText(Failure(resp).value))
  ELSE IF ~resp.hasMessages THEN Return(s, NoMessagesFound)
  ELSE IF resp.messages = <<>> THEN Return(s, JsonArray(<<>>))
  ELSE Issue([s EXCEPT !.messageList = resp.messages],
             GetRequest(<<resp.messages[1]>>), "awaitMessage")

\* a loop that asks once more for a message whose fetch failed
listEmailsFetchedRetry(s, resp) ==
  IF Failure(resp).defined /\ Len(s.http) = Len(s.emailMessages) + 2
    THEN Issue(s, s.http[Len(s.http)], "awaitMessage")
  ELSE IF Failure(resp).defined THEN Return(s, ErrorText(Failure(resp).value))
  ELSE IF ~resp.hasPayload THEN Return(s, ErrorText(TypeError))
  ELSE LET emails == Append(s.emailMessages, parseMessage(resp.rawMessage))
       IN  IF Len(emails) = Len(s.messageList)
           THEN Return([s EXCEPT !.emailMessages = emails], JsonArray(emails))
           ELSE Issue([s EXCEPT !.emailMessages = emails],
                      GetRequest(<<s.messageList[Len(emails) + 1]>>),
                      "awaitMessage")

\* after a message response: push the normalized message, then the fetch of
\* the next id or the JSON of all of them
listEmailsFetched(s, resp) ==
  IF Failure(resp).defined THEN Return(s, ErrorText(Failure(resp).value))
  ELSE IF ~resp.hasPayload THEN Return(s, ErrorText(TypeError))
  ELSE LET emails == Append(s.emailMessages, parseMessage(resp.rawMessage))
       IN  IF Len(emails) = Len(s.messageList)
           THEN Return([s EXCEPT !.emailMessages = emails], JsonArray(emails))
           ELSE Issue([s EXCEPT !.emailMessages = emails],
                      GetRequest(<<s.messageList[Len(emails) + 1]>>),
                      "awaitMessage")

(* index.ts, case "getEmailContent" *)
getEmailContentStart(s) ==
  IF CredentialMissing THEN Return(s, ApiKeyNotSet)
  ELSE IF ~EmailIndexSchema(s.request.hasArguments, s.request.arguments)
    THEN Return(s, ErrorText(ZodError))
  ELSE Issue([s EXCEPT !.emailIndex = s.request.arguments.emailIndex.n],
             ListRequest(FALSE, <<>>, TRUE, ToStr(s.request.arguments.emailIndex)),
             "awaitList")

\* !messageList.messages || messageList.messages.length < emailIndex
indexNotFound(resp, emailIndex) ==
  ~resp.hasMessages \/ Len(resp.messages) < emailIndex

\* after the list response: not found, or the fetch of
\* messageList.messages[emailIndex - 1].id, which throws when that element
\* is undefined
getEmailContentListed(s, resp) ==
  IF Failure(resp).defined THEN Return(s, ErrorText(Failure(resp).value))
  ELSE IF indexNotFound(resp, s.emailIndex) THEN Return(s, EmailNotFound)
  ELSE IF s.emailIndex \notin 1..Len(resp.messages)
    THEN Return([s EXCEPT !.messageList = resp.messages], ErrorText(TypeError))
  ELSE Issue([s EXCEPT !.messageList = resp.messages],
             GetRequest(<<resp.messages[s.emailIndex]>>), "awaitMessage")

getEmailContentFetched(s, resp) ==
  IF Failure(resp).defined THEN Return(s, ErrorText(Failure(resp).value))
  ELSE IF ~resp.hasPayload THEN Return(s, ErrorText(TypeError))
  ELSE Return([s EXCEPT !.emailMessages = <<parseMessage(resp.rawMessage)>>],
              JsonObject(parseMessage(resp.rawMessage)))

(* index.ts, case "sendEmail" *)
sendEmailStart(s) ==
  IF CredentialMissing THEN Return(s, ApiKeyNotSet)
  ELSE IF ~SendEmailSchema(s.request.hasArguments, s.request.arguments)
    THEN Return(s, ErrorText(ZodError))
  ELSE Issue(s, SendRequest(raw(emailHeaders(s.request.arguments.to.s,
                                             s.request.arguments.subject.s)
                                \o s.request.arguments.body.s)),
             "awaitSend")

\* after the POST: the body is read only on a non-success status
sendEmailSent(s, resp) ==
  IF resp.rejected THEN Return(s, ErrorText(FetchFailed))
  ELSE IF ~resp.ok THEN Return(s, ErrorText(errorMessage(resp)))
  ELSE Return(s, EmailSent)

(* part_000 (first program), case "listEmails": always ?maxResults=3 *)
listEmailsStart000(s) ==
  IF CredentialMissing THEN Return(s, ApiKeyNotSet)
  ELSE Issue(s, ListRequest(FALSE, <<>>, TRUE, <<"3">>), "awaitList")

(* part_000 (first program), case "getEmailContent": the schema is parsed  *)
(* before the try block, from request.params.input                         *)
getEmailContentStart000(s) ==
  IF CredentialMissing THEN Return(s, ApiKeyNotSet)
  ELSE IF ~getEmailContentSchema(s.request.input) THEN Throw(s, ZodError)
  ELSE Issue(s, GetRequest(s.request.input.messageId.s), "awaitMessage")

(* part_001, case "listEmails": the ids only *)
listEmailsStart001(s) ==
  IF CredentialMissing THEN Return(s, ApiKeyNotSet)
  ELSE IF ~(s.request.hasArguments
            /\ s.request.arguments.query.t \in {"undefined", "string"})
    THEN Return(s, ValidationErrorText(ZodError))
  ELSE IF Truthy(s.request.arguments.query)
    THEN Issue(s, ListRequest(TRUE, encodeURIComponent(s.request.arguments.query.s),
                              FALSE, <<>>), "awaitList")
  ELSE Issue(s, ListRequest(FALSE, <<>>, FALSE, <<>>), "awaitList")

\* the body of a non-success response is not read
listEmailsListed001(s, resp) ==
  IF resp.rejected THEN Return(s, ErrorText(FetchFailed))
  ELSE IF ~resp.ok THEN Return(s, ErrorText(resp.statusText))
  ELSE IF resp.json = "invalid" THEN Return(s, ErrorText(SyntaxError))
  ELSE Return(s, JsonData(resp))

\* a switch whose default falls into the first case
StartNoDefault(prog, s) ==
  IF s.request.name = "getEmailContent" /\ prog = "index"
    THEN getEmailContentStart(s)
  ELSE IF s.request.name = "getEmailContent" /\ prog = "part_000"
    THEN getEmailContentStart000(s)
  ELSE IF s.request.name = "sendEmail" /\ prog = "index" THEN sendEmailStart(s)
  ELSE IF prog = "index" THEN listEmailsStart(s)
  ELSE IF prog = "part_000" THEN listEmailsStart000(s)
  ELSE listEmailsStart001(s)

\* switch (request.params.name) of each program, up to the first await
Start(prog, s) ==
  IF prog = "index" THEN
    (IF s.request.name = "listEmails" THEN listEmailsStart(s)
     ELSE IF s.request.name = "getEmailContent" THEN getEmailContentStart(s)
     ELSE IF s.request.name = "sendEmail" THEN sendEmailStart(s)
     ELSE Return(s, UnknownTool))
  ELSE IF prog = "part_000" THEN
    (IF s.request.name = "listEmails" THEN listEmailsStart000(s)
     ELSE IF s.request.name = "getEmailContent" THEN getEmailContentStart000(s)
     ELSE Return(s, UnknownTool))
  ELSE
    (IF s.request.name = "listEmails" THEN listEmailsStart001(s)
     ELSE Return(s, UnknownTool))

\* the handler resumed with the list response
Listed(prog, s, resp) ==
  IF prog = "part_001" THEN listEmailsListed001(s, resp)
  ELSE IF s.request.name = "listEmails" THEN listEmailsListed(s, resp)
  ELSE getEmailContentListed(s, resp)

\* the handler resumed with a message response
Fetched(prog, s, resp) ==
  IF s.request.name = "listEmails" THEN listEmailsFetched(s, resp)
  ELSE getEmailContentFetched(s, resp)

----------------------------------------------------------------------------
(* The state machine.                                                      *)

Received(s, resp) == [s EXCEPT !.responses = Append(@, resp)]

\* whether a result reports a failure
IsErrorResult(s) ==
  s.pc = "threw" \/ s.result.fmt \in {"Error: ${}", "Validation Error: ${}"}

Init ==
  /\ GMAIL_API_KEY \in BOOLEAN
  /\ program \in Programs
  /\ calls = [c \in {"c1"} |-> IdleCall]
  /\ served = [ended |-> 0, failed |-> 0]
  /\ message = NoMessage
  /\ parsed = [done |-> FALSE, email |-> NoEmail]

\* an emailMessages array declared once for the module: what one invocation
\* has pushed is what every invocation under way holds
ResumedSharedList(cs, c, s) ==
  [d \in DOMAIN cs |->
     IF d = c THEN s
     ELSE IF cs[d].pc = "idle" THEN cs[d]
     ELSE [cs[d] EXCEPT !.emailMessages = s.emailMessages]]

\* the locals of an invocation (emailMessages, messageList, ...) are
\* declared inside the handler: resuming invocation c with state s leaves
\* every other invocation as it was
Resumed(cs, c, s) == [cs EXCEPT ![c] = s]

\* a tool-call request arrives and the handler runs to its first await
CallFrom(c, requests) ==
  /\ calls[c].pc = "idle"
  /\ served.ended < MaxServed
  /\ \E req \in requests :
       calls' = Resumed(calls, c,
                        Start(program, [IdleCall EXCEPT !.request = req]))
  /\ UNCHANGED <<GMAIL_API_KEY, program, served, message, parsed>>

Call(c) == CallFrom(c, Requests)

\* the list request completes
ListResponseFrom(c, responses) ==
  /\ calls[c].pc = "awaitList"
  /\ \E resp \in responses :
       calls' = Resumed(calls, c,
                        Listed(program, Received(calls[c], resp), resp))
  /\ UNCHANGED <<GMAIL_API_KEY, program, served, message, parsed>>

ListResponse(c) ==
  ListResponseFrom(c, {Rejected} \cup ErrorResponses \cup ListResponses)

\* a fetch of one message completes
\* responses: for each message id, the responses its fetch can come to
MessageResponseFrom(c, responses) ==
  /\ calls[c].pc = "awaitMessage"
  /\ LET req == calls[c].http[Len(calls[c].http)]
     IN  \E resp \in responses[req.id[1]] :
           calls' = Resumed(calls, c,
                            Fetched(program, Received(calls[c], resp), resp))
  /\ UNCHANGED <<GMAIL_API_KEY, program, served, message, parsed>>

AnyMessageResponses(id) ==
  {Rejected} \cup ErrorResponses \cup MessageResponses(id)

MessageResponse(c) ==
  MessageResponseFrom(c, [id \in MessageIds |-> AnyMessageResponses(id)])

\* the POST to messages/send completes
SendResponseFrom(c, responses) ==
  /\ calls[c].pc = "awaitSend"
  /\ \E resp \in responses :
       calls' = Resumed(calls, c, sendEmailSent(Received(calls[c], resp), resp))
  /\ UNCHANGED <<GMAIL_API_KEY, program, served, message, parsed>>

SendResponse(c) ==
  SendResponseFrom(c, {Rejected} \cup ErrorResponses \cup SendResponses)

\* the protocol layer sends the handler's result (or the error it threw) to
\* the caller; the process goes on to the next request
Respond(c) ==
  /\ calls[c].pc \in {"returned", "threw"}
  /\ served' = [ended |-> served.ended + 1,
                failed |-> served.failed + (IF IsErrorResult(calls[c]) THEN 1 ELSE 0)]
  /\ calls' = Resumed(calls, c, IdleCall)
  /\ UNCHANGED <<GMAIL_API_KEY, program, message, parsed>>

Next ==
  \/ \E c \in DOMAIN calls : Call(c)
  \/ \E c \in DOMAIN calls : ListResponse(c)
  \/ \E c \in DOMAIN calls : MessageResponse(c)
  \/ \E c \in DOMAIN calls : SendResponse(c)
  \/ \E c \in DOMAIN calls : Respond(c)

Spec == Init /\ [][Next]_vars

(* Two invocations in flight at once in the server of index.ts, their steps *)
(* interleaved in any order at the awaits.                                 *)
CallIds == {"c1", "c2"}

InitConcurrent ==
  /\ GMAIL_API_KEY \in BOOLEAN
  /\ program = "index"
  /\ calls = [c \in CallIds |-> IdleCall]
  /\ served = [ended |-> 0, failed |-> 0]
  /\ message = NoMessage
  /\ parsed = [done |-> FALSE, email |-> NoEmail]

ConcurrentCall(c) == CallFrom(c, ConcurrentRequests)

ConcurrentListResponse(c) == ListResponseFrom(c, ConcurrentListResponses)

ConcurrentMessageResponse(c) ==
  MessageResponseFrom(c, [id \in MessageIds |-> ConcurrentMessageResponses(id)])

ConcurrentSendResponse(c) == SendResponseFrom(c, ConcurrentSendResponses)

NextConcurrent ==
  \/ \E c \in DOMAIN calls : ConcurrentCall(c)
  \/ \E c \in DOMAIN calls : ConcurrentListResponse(c)
  \/ \E c \in DOMAIN calls : ConcurrentMessageResponse(c)
  \/ \E c \in DOMAIN calls : ConcurrentSendResponse(c)
  \/ \E c \in DOMAIN calls : Respond(c)

SpecConcurrent == InitConcurrent /\ [][NextConcurrent]_vars

(* parseMessage alone, over every RawMessage of the bounded shape *)
InitParse ==
  /\ GMAIL_API_KEY = TRUE
  /\ program = "index"
  /\ calls = [c \in {"c1"} |-> IdleCall]
  /\ served = [ended |-> 0, failed |-> 0]
  /\ message \in RawMessages
  /\ parsed = [done |-> FALSE, email |-> NoEmail]

Normalize ==
  /\ ~parsed.done
  /\ parsed' = [done |-> TRUE, email |-> parseMessage(message)]
  /\ UNCHANGED <<GMAIL_API_KEY, program, calls, served, message>>

NextParse == Normalize

SpecParse == InitParse /\ [][NextParse]_vars

----------------------------------------------------------------------------
(* Properties.                                                             *)

Ended(s) == s.pc \in {"returned", "threw"}

InFlight(s) == s.pc \in {"awaitList", "awaitMessage", "awaitSend"}

\* C1: with the credential absent, a call to a registered tool, whatever its
\* arguments, returns "API Key not set.", and no invocation ever issues an
\* HTTP request.
C1_MissingCredential ==
  ~GMAIL_API_KEY =>
    \A c \in DOMAIN calls :
      /\ calls[c].http = <<>>
      /\ ~InFlight(calls[c])
      /\ (calls[c].pc # "idle" /\ calls[c].request.name \in RegisteredTools(program))
           => (calls[c].pc = "returned" /\ calls[c].result = ApiKeyNotSet)

C1_Witness ==
  /\ ~GMAIL_API_KEY
  /\ program = "index"
  /\ \E c \in DOMAIN calls :
       /\ calls[c].pc = "returned"
       /\ calls[c].request.name = "sendEmail"
       /\ SendEmailSchema(calls[c].request.hasArguments, calls[c].request.arguments)
       /\ calls[c].result = ApiKeyNotSet
       /\ calls[c].http = <<>>

\* the arguments of a request do not satisfy the schema index.ts declares for
\* its tool (listEmails takes absent arguments as {})
ViolatesDeclaredSchema(request) ==
  \/ request.name = "listEmails"
       /\ ~ListEmailsSchema(request.arguments)
  \/ request.name = "getEmailContent"
       /\ ~EmailIndexSchema(request.hasArguments, request.arguments)
  \/ request.name = "sendEmail"
       /\ ~SendEmailSchema(request.hasArguments, request.arguments)

IsValidationError(s) ==
  s.pc = "returned" /\ s.result \in {ErrorText(ZodError), ValidationErrorText(ZodError)}

\* C2: (index.ts, credential set) a call whose arguments do not satisfy the
\* tool's declared schema returns a validation error and issues no HTTP
\* request.
C2_InvalidArgumentsNeverFetch ==
  (program = "index" /\ GMAIL_API_KEY) =>
    \A c \in DOMAIN calls :
      (calls[c].pc # "idle" /\ ViolatesDeclaredSchema(calls[c].request))
        => (calls[c].http = <<>> /\ IsValidationError(calls[c]))

\* C3: an invocation never lets an exception leave the handler: it ends by
\* returning a text result.
C3_NoExceptionEscapes ==
  \A c \in DOMAIN calls :
    /\ calls[c].pc # "threw"
    /\ calls[c].pc = "returned" => calls[c].result.fmt # ""

\* the number of ids in a successful list response
ListingSize(resp) == IF resp.hasMessages THEN Len(resp.messages) ELSE 0

\* C4: (index.ts) getEmailContent with index i on a listing of n ids returns
\* "Email not found at the specified index." and fetches no message whenever
\* i > n or i < 1.
C4_IndexOutOfRange ==
  program = "index" =>
    \A c \in DOMAIN calls :
      ( /\ calls[c].request.name = "getEmailContent"
        /\ Len(calls[c].responses) >= 1
        /\ ~Failure(calls[c].responses[1]).defined
        /\ \/ calls[c].emailIndex > ListingSize(calls[c].responses[1])
           \/ calls[c].emailIndex < 1 )
        => ( /\ calls[c].pc = "returned"
             /\ calls[c].result = EmailNotFound
             /\ Len(calls[c].http) = 1 )

\* C5: (index.ts) listEmails called without one or both of its arguments
\* sends the list request of the declared defaults: q is the query supplied
\* or in:inbox, maxResults the number supplied or 3.
C5_ListEmailsDefaults ==
  program = "index" =>
    \A c \in DOMAIN calls :
      ( /\ calls[c].request.name = "listEmails"
        /\ calls[c].http # <<>>
        /\ ListEmailsSchema(calls[c].request.arguments)
        /\ \/ calls[c].request.arguments.query.t = "undefined"
           \/ calls[c].request.arguments.maxResults.t = "undefined" )
        => LET d == ListEmailsDefaults(calls[c].request.arguments)
           IN  calls[c].http[1] =
                 ListRequest(TRUE, encodeURIComponent(d.query.s),
                             TRUE, ToStr(d.maxResults))

\* every fetch of a listEmails invocation so far succeeded: the list response
\* holds a messages sequence and one well-formed message came back for each
\* of its ids
AllFetched(s) ==
  /\ s.request.name = "listEmails"
  /\ Len(s.responses) >= 1
  /\ ~Failure(s.responses[1]).defined
  /\ s.responses[1].hasMessages
  /\ Len(s.responses) = Len(s.responses[1].messages) + 1
  /\ \A k \in 2..Len(s.responses) :
       ~Failure(s.responses[k]).defined /\ s.responses[k].hasPayload

\* C6: (the listEmails that fetches the listed messages: index.ts, part_000)
\* when the list response holds n ids and every fetch succeeds, listEmails
\* returns the JSON of exactly n records, the k-th being the normalization
\* of the message fetched for the k-th id of the list response.
C6_ListEmailsInOrder ==
  program # "part_001" =>
    \A c \in DOMAIN calls :
      AllFetched(calls[c]) =>
        LET s == calls[c]
            ids == s.responses[1].messages
        IN  /\ s.pc = "returned"
            /\ s.result.fmt = "JSON.stringify(array)"
            /\ Len(s.result.value) = Len(ids)
            /\ Len(s.http) = Len(ids) + 1
            /\ \A k \in 1..Len(ids) :
                 /\ s.http[k + 1] = GetRequest(<<ids[k]>>)
                 /\ s.result.value[k] =
                      JsonEmail(parseMessage(s.responses[k + 1].rawMessage))
                 /\ s.result.value[k].id = ids[k]

C6_Witness ==
  /\ program = "index"
  /\ \E c \in DOMAIN calls :
       /\ AllFetched(calls[c])
       /\ calls[c].responses[1].messages = <<"b", "a">>
       /\ calls[c].responses[2].rawMessage.payload # calls[c].responses[3].rawMessage.payload
       /\ Len(calls[c].result.value) = 2
       /\ calls[c].result.value[1].id = "b"

\* C7: a non-success status with a JSON object body yields "Error: " with the
\* body's error.message when it carries one and the status text when not
\* (so a 404 with {error:{message:"Not Found"}} yields text with "Not Found").
C7_PrefersProviderMessage ==
  \A c \in DOMAIN calls :
    \A k \in 1..Len(calls[c].responses) :
      LET resp == calls[c].responses[k]
      IN  (~resp.rejected /\ ~resp.ok /\ resp.json = "object")
            => /\ calls[c].pc = "returned"
               /\ calls[c].result =
                    ErrorText(IF resp.errorMessage.defined
                              THEN resp.errorMessage.value
                              ELSE resp.statusText)

\* C8: a call whose name is not a registered tool returns "Unknown tool."
\* for any arguments, issues no HTTP request and does not throw.
C8_UnknownTool ==
  \A c \in DOMAIN calls :
    (calls[c].pc # "idle" /\ calls[c].request.name \notin RegisteredTools(program))
      => /\ calls[c].pc = "returned"
         /\ calls[c].result = UnknownTool
         /\ calls[c].http = <<>>

C8_Witness ==
  /\ GMAIL_API_KEY
  /\ program = "index"
  /\ \E c \in DOMAIN calls :
       /\ calls[c].pc = "returned"
       /\ calls[c].request.name = "deleteEmail"
       /\ calls[c].request.hasArguments
       /\ calls[c].result = UnknownTool

\* the text each base64 fixture stands for
PlainText(data) ==
  IF data = DataHi THEN <<"h", "i">>
  ELSE IF data = DataYo THEN <<"y", "o">>
  ELSE IF data = DataHtml THEN <<"<", "b", ">">>
  ELSE IF data = DataBody THEN <<"b", "o", "d", "y">>
  ELSE <<>>

\* the positions of the parts of one mime type
PartsOfType(payload, mimeType) ==
  {i \in 1..Len(payload.parts) : payload.parts[i].mimeType = mimeType}

\* the text of the first part of a mime type that has one
FirstPartText(payload, mimeType) ==
  LET first == CHOOSE i \in PartsOfType(payload, mimeType) :
                 \A j \in PartsOfType(payload, mimeType) : i <= j
  IN  PlainText(payload.parts[first].body.data)

\* C9: for a RawMessage whose payload.parts holds a text/plain part, the body
\* parseMessage returns is the decoded text of the first such part, whatever
\* other parts there are and wherever they stand.
C9_PlainTextFirst ==
  (parsed.done /\ message.payload.hasParts
     /\ PartsOfType(message.payload, "text/plain") # {})
    => parsed.email.body = FirstPartText(message.payload, "text/plain")

C9_Witness ==
  /\ parsed.done
  /\ message.payload.hasParts
  /\ Len(message.payload.parts) = 2
  /\ message.payload.parts[1].mimeType = "text/html"
  /\ message.payload.parts[2].mimeType = "text/plain"
  /\ message.payload.parts[2].body.data = DataYo
  /\ message.payload.body.hasData
  /\ parsed.email.body = <<"y", "o">>

\* C10: with no text/plain part, the body is, when payload.parts is present,
\* the decoded first text/html part or "" when there is none (payload.body
\* is not used), and when payload.parts is absent, the decoded
\* payload.body.data or "" when there is none.
C10_BodyPrecedence ==
  (parsed.done /\ PartsOfType(message.payload, "text/plain") = {})
    => parsed.email.body =
         IF message.payload.hasParts
         THEN (IF PartsOfType(message.payload, "text/html") # {}
               THEN FirstPartText(message.payload, "text/html")
               ELSE <<>>)
         ELSE (IF message.payload.body.hasData
               THEN PlainText(message.payload.body.data)
               ELSE <<>>)

C10_Witness ==
  /\ parsed.done
  /\ message.payload.hasParts
  /\ PartsOfType(message.payload, "text/plain") = {}
  /\ PartsOfType(message.payload, "text/html") = {}
  /\ Len(message.payload.parts) >= 1
  /\ message.payload.body.hasData
  /\ message.payload.body.data = DataBody
  /\ parsed.email.body = <<>>

\* the header+body block of an accepted sendEmail call, as index.ts builds it
BlockOf(arguments) ==
  StrTo \o arguments.to.s \o StrCrLf \o StrSubject \o arguments.subject.s
    \o StrCrLf \o StrContentType \o arguments.body.s

\* the POSTs of an invocation
Posts(s) == {i \in 1..Len(s.http) : s.http[i].op = "messages.send"}

\* url is the url-safe, unpadded form of the standard base64 text std: the
\* same characters position by position except "-" for "+" and "_" for "/",
\* and nothing but the trailing "=" left out
IsUrlSafeOf(url, std) ==
  /\ Len(url) <= Len(std)
  /\ \A i \in 1..Len(url) :
       url[i] = (IF std[i] = "+" THEN "-" ELSE IF std[i] = "/" THEN "_" ELSE std[i])
  /\ \A i \in (Len(url) + 1)..Len(std) : std[i] = "="
  /\ (url # <<>> => url[Len(url)] # "=")

\* C11: the raw string sendEmail POSTs holds no "+", no "/" and no trailing
\* "=", is the standard base64 of the header+body block with "+" replaced by
\* "-", "/" by "_" and the trailing padding removed, and decodes to the block.
C11_RawIsBase64Url ==
  \A c \in DOMAIN calls : \A i \in Posts(calls[c]) :
    LET posted == calls[c].http[i].raw
        block == BlockOf(calls[c].request.arguments)
    IN  /\ \A k \in 1..Len(posted) : posted[k] \notin {"+", "/"}
        /\ posted # <<>> /\ posted[Len(posted)] # "="
        /\ IsUrlSafeOf(posted, BytesToBase64(Utf8Bytes(block)))
        /\ Base64Decode(posted) = Utf8Bytes(block)

C11_Witness ==
  \E c \in DOMAIN calls :
    /\ calls[c].pc = "awaitSend"
    /\ Posts(calls[c]) = {1}
    /\ calls[c].request.arguments.body.s = StrMarksLine
    /\ LET std == BytesToBase64(Utf8Bytes(BlockOf(calls[c].request.arguments)))
       IN  /\ \E k \in 1..Len(std) : std[k] = "+"
           /\ \E k \in 1..Len(std) : std[k] = "/"
           /\ std[Len(std)] = "="
           /\ Len(calls[c].http[1].raw) = Len(std) - 1

\* the block the message is to be: To, Cc when a cc was supplied, Subject,
\* Content-Type, a blank line, the body
BlockWithCc(arguments) ==
  StrTo \o arguments.to.s \o StrCrLf
    \o (IF arguments.cc.t # "undefined"
        THEN StrCc \o ToStr(arguments.cc) \o StrCrLf ELSE <<>>)
    \o StrSubject \o arguments.subject.s \o StrCrLf
    \o StrContentType \o arguments.body.s

\* C12: the block sendEmail POSTs is the To line, a Cc line exactly when a cc
\* argument was supplied, the Subject line, the Content-Type line, a blank
\* line and the body, in this order; a supplied cc is not dropped.
C12_CcLineWhenSupplied ==
  \A c \in DOMAIN calls : \A i \in Posts(calls[c]) :
    Utf8String(Base64Decode(calls[c].http[i].raw))
      = BlockWithCc(calls[c].request.arguments)

\* a list response read without error that names no message: no messages
\* field, or an empty messages sequence
ListsNothing(resp) ==
  ~Failure(resp).defined /\ (~resp.hasMessages \/ resp.messages = <<>>)

\* C13: when the list response carries no messages field or an empty
\* messages sequence, listEmails returns "No messages found.", which is not
\* an error result, and issues no fetch-by-id request.
C13_NoMessagesFound ==
  program = "index" =>
    \A c \in DOMAIN calls :
      (calls[c].request.name = "listEmails" /\ calls[c].responses # <<>>
         /\ ListsNothing(calls[c].responses[1]))
        => /\ calls[c].pc = "returned"
           /\ calls[c].result = NoMessagesFound
           /\ ~IsErrorResult(calls[c])
           /\ \A i \in 1..Len(calls[c].http) : calls[c].http[i].op # "messages.get"

\* the requests of an invocation that have not completed yet
Outstanding(s) == Len(s.http) - Len(s.responses)

\* C14: within one invocation the HTTP calls are sequential: a request is
\* issued only when every earlier one has completed without failure, so the
\* list request has completed before any fetch-by-id and the fetch of the
\* k-th id before that of the (k+1)-th, the list request is the first one,
\* and at most one request is outstanding, exactly while the invocation
\* waits.
C14_Sequential ==
  \A c \in DOMAIN calls :
    /\ Outstanding(calls[c]) = (IF InFlight(calls[c]) THEN 1 ELSE 0)
    /\ \A i \in 2..Len(calls[c].http) :
         /\ i - 1 <= Len(calls[c].responses)
         /\ ~Failure(calls[c].responses[i - 1]).defined
         /\ calls[c].http[i].op = "messages.get"
    /\ \A i \in 1..Len(calls[c].http) :
         (calls[c].http[i].op = "messages.get" /\ program = "index")
           => (i >= 2 /\ calls[c].http[1].op = "messages.list")

C14_Witness ==
  /\ program = "index"
  /\ \E c \in DOMAIN calls :
       /\ calls[c].request.name = "listEmails"
       /\ calls[c].pc = "awaitMessage"
       /\ Len(calls[c].http) = 3
       /\ Len(calls[c].responses) = 2
       /\ calls[c].http[3].op = "messages.get"

\* an HTTP call that failed: a transport error or a non-success status
Failed(resp) == resp.rejected \/ ~resp.ok

\* how many requests of one kind an invocation has issued
Issued(s, op) == Cardinality({i \in 1..Len(s.http) : s.http[i].op = op})

\* C15: nothing is retried and a failure ends the call: an invocation issues
\* the list request and the POST at most once and at most one fetch for each
\* listed message (one in all for getEmailContent), and a failed HTTP call is
\* the last one of its invocation, which has then returned an error text,
\* not the emails fetched so far.
C15_FailureIsTerminal ==
  \A c \in DOMAIN calls :
    /\ Issued(calls[c], "messages.list") <= 1
    /\ Issued(calls[c], "messages.send") <= 1
    /\ Issued(calls[c], "messages.get")
         <= (IF calls[c].request.name = "listEmails"
             THEN Len(calls[c].messageList) ELSE 1)
    /\ \A i \in 1..Len(calls[c].responses) :
         Failed(calls[c].responses[i])
           => /\ i = Len(calls[c].responses)
              /\ Len(calls[c].http) = i
              /\ calls[c].pc = "returned"
              /\ calls[c].result.fmt = "Error: ${}"
              /\ calls[c].result.value = <<>>

C15_Witness ==
  /\ program = "index"
  /\ \E c \in DOMAIN calls :
       /\ calls[c].request.name = "listEmails"
       /\ Len(calls[c].messageList) = 2
       /\ Len(calls[c].emailMessages) = 1
       /\ Len(calls[c].responses) = 3
       /\ Failed(calls[c].responses[3])
       /\ calls[c].pc = "returned"
       /\ IsErrorResult(calls[c])

\* the handler resumed with the response it waits for
Resume(prog, s, resp) ==
  IF s.pc = "awaitList" THEN Listed(prog, Received(s, resp), resp)
  ELSE IF s.pc = "awaitMessage" THEN Fetched(prog, Received(s, resp), resp)
  ELSE IF s.pc = "awaitSend" THEN sendEmailSent(Received(s, resp), resp)
  ELSE s

\* an invocation run on its own from state s through the responses resps
RECURSIVE RunAlone(_, _, _)
RunAlone(prog, s, resps) ==
  IF resps = <<>> THEN s
  ELSE RunAlone(prog, Resume(prog, s, Head(resps)), Tail(resps))

\* where an invocation stands (its locals, its requests, its result) is what
\* the handler, run alone, comes to on its arguments and the responses to
\* its own requests
DeterminedByOwnInputs(c) ==
  calls[c].pc # "idle" =>
    calls[c] = RunAlone(program,
                        Start(program, [IdleCall EXCEPT !.request = calls[c].request]),
                        calls[c].responses)

\* C16: with several invocations in flight and their steps interleaved at
\* the awaits in any order, each invocation's state and result are those of
\* the handler run alone on its own arguments and the responses to its own
\* requests; a step of one invocation changes no other invocation; and the
\* credential and the running program, with its tool registry, never
\* change.
C16_Independent ==
  /\ [](\A c \in DOMAIN calls : DeterminedByOwnInputs(c))
  /\ [][/\ \A c, d \in DOMAIN calls :
             (c # d /\ calls[c]' # calls[c]) => calls[d]' = calls[d]
        /\ GMAIL_API_KEY' = GMAIL_API_KEY
        /\ program' = program
        /\ RegisteredTools(program)' = RegisteredTools(program)]_vars

C16_Witness ==
  /\ GMAIL_API_KEY
  /\ calls["c1"].request.name = "listEmails"
  /\ calls["c1"].pc = "awaitMessage"
  /\ Len(calls["c1"].emailMessages) = 1
  /\ calls["c2"].request.name = "listEmails"
  /\ calls["c2"].pc = "awaitMessage"
  /\ Len(calls["c2"].emailMessages) = 1
  /\ calls["c1"].emailMessages # calls["c2"].emailMessages
  /\ served.ended = 1

============================================================================
